---------------------------- MODULE Spec2Model ----------------------------
(***************************************************************************)
(* Model of src/src/main.cpp: a two-core firmware sketch.  Core 0 (setup,  *)
(* loop) probes an MPU-6050 over I2C and publishes a tilt value, measured  *)
(* or simulated; core 1 (loop1) integrates a damped, reflecting particle   *)
(* driven by that tilt and renders it.                                     *)
(*                                                                         *)
(* All program quantities are IEEE-754 binary32 values.  The model keeps   *)
(* them bit-exact: a float is a record [neg, bits] holding the sign and    *)
(* the 31 magnitude bits (exponent and fraction), and the arithmetic is    *)
(* done on exact integers (arbitrary-precision, as limb sequences) and     *)
(* rounded to nearest-even, through binary64 wherever the C++ expression   *)
(* has a double operand.                                                   *)
(***************************************************************************)
EXTENDS Integers, Sequences, FiniteSets, TLC

(***************************************************************************)
(* Arbitrary-precision naturals: little-endian sequences of base-2^15      *)
(* limbs without leading zero limbs (TLC's integers are 32 bits wide, the  *)
(* exact products and aligned sums of the float operations are not).       *)
(* A value used more than once is passed as an operator argument, which    *)
(* TLC evaluates once.                                                     *)
(***************************************************************************)
LimbBits == 15

Limb == 2^LimbBits

Pow2(n) == 2^n

RECURSIVE BTrim(_)
BTrim(a) ==
    IF a = <<>> THEN <<>>
    ELSE IF a[Len(a)] = 0 THEN BTrim(SubSeq(a, 1, Len(a) - 1))
    ELSE a

RECURSIVE BFromInt(_)
BFromInt(n) == IF n = 0 THEN <<>> ELSE <<n % Limb>> \o BFromInt(n \div Limb)

RECURSIVE BToInt(_)
BToInt(a) == IF a = <<>> THEN 0 ELSE a[1] + Limb * BToInt(Tail(a))

BLimb(a, i) == IF i <= Len(a) THEN a[i] ELSE 0

RECURSIVE BAddC(_, _, _, _)
BAddC(a, b, i, c) ==
    IF i > Len(a) /\ i > Len(b)
    THEN (IF c = 0 THEN <<>> ELSE <<c>>)
    ELSE <<(BLimb(a, i) + BLimb(b, i) + c) % Limb>>
         \o BAddC(a, b, i + 1, (BLimb(a, i) + BLimb(b, i) + c) \div Limb)

BAdd(a, b) == IF b = <<>> THEN a ELSE BAddC(a, b, 1, 0)

\* a - b for a >= b
RECURSIVE BSubC(_, _, _, _)
BSubC(a, b, i, c) ==
    IF i > Len(a) THEN <<>>
    ELSE IF BLimb(a, i) - BLimb(b, i) - c < 0
    THEN <<BLimb(a, i) - BLimb(b, i) - c + Limb>> \o BSubC(a, b, i + 1, 1)
    ELSE <<BLimb(a, i) - BLimb(b, i) - c>> \o BSubC(a, b, i + 1, 0)

BSub(a, b) == BTrim(BSubC(a, b, 1, 0))

\* -1, 0, 1 as a < b, a = b, a > b (both trimmed)
RECURSIVE BCmpAt(_, _, _)
BCmpAt(a, b, i) ==
    IF i = 0 THEN 0
    ELSE IF a[i] < b[i] THEN -1
    ELSE IF a[i] > b[i] THEN 1
    ELSE BCmpAt(a, b, i - 1)

BCmp(a, b) ==
    IF Len(a) < Len(b) THEN -1
    ELSE IF Len(a) > Len(b) THEN 1
    ELSE BCmpAt(a, b, Len(a))

\* a * k for 0 <= k < Limb
RECURSIVE BMulSmallC(_, _, _, _)
BMulSmallC(a, k, i, c) ==
    IF i > Len(a)
    THEN (IF c = 0 THEN <<>> ELSE <<c>>)
    ELSE <<(a[i] * k + c) % Limb>>
         \o BMulSmallC(a, k, i + 1, (a[i] * k + c) \div Limb)

BMulSmall(a, k) == IF k = 0 THEN <<>> ELSE BMulSmallC(a, k, 1, 0)

RECURSIVE Zeros(_)
Zeros(n) == IF n <= 0 THEN <<>> ELSE <<0>> \o Zeros(n - 1)

RECURSIVE BMulAt(_, _, _)
BMulAt(a, b, j) ==
    IF j > Len(b) THEN <<>>
    ELSE IF b[j] = 0 THEN BMulAt(a, b, j + 1)
    ELSE BAdd(Zeros(j - 1) \o BMulSmall(a, b[j]), BMulAt(a, b, j + 1))

\* (the long multiplication runs over the limbs of the shorter factor)
BMul(a, b) ==
    IF a = <<>> \/ b = <<>> THEN <<>>
    ELSE IF Len(a) < Len(b) THEN BMulAt(b, a, 1)
    ELSE BMulAt(a, b, 1)

\* a * 2^k
BShl(a, k) ==
    IF a = <<>> THEN <<>>
    ELSE Zeros(k \div LimbBits) \o BMulSmall(a, Pow2(k % LimbBits))

\* floor(a / 2^r) for 0 <= r < LimbBits
RECURSIVE BShrSmallAt(_, _, _)
BShrSmallAt(a, r, i) ==
    IF i > Len(a) THEN <<>>
    ELSE <<(a[i] \div Pow2(r))
           + (BLimb(a, i + 1) % Pow2(r)) * Pow2(LimbBits - r)>>
         \o BShrSmallAt(a, r, i + 1)

BShrSmall(a, r) == BTrim(BShrSmallAt(a, r, 1))

\* floor(a / 2^k)
BShr(a, k) ==
    IF k \div LimbBits >= Len(a) THEN <<>>
    ELSE BShrSmall(SubSeq(a, (k \div LimbBits) + 1, Len(a)), k % LimbBits)

\* bit k of a (bit 0 the least significant)
BBit(a, k) == (BLimb(a, (k \div LimbBits) + 1) \div Pow2(k % LimbBits)) % 2

\* whether the k low bits of a are all zero
BLowZero(a, k) ==
    /\ \A i \in 1..(k \div LimbBits) : BLimb(a, i) = 0
    /\ BLimb(a, (k \div LimbBits) + 1) % Pow2(k % LimbBits) = 0

RECURSIVE IntBitLen(_)
IntBitLen(n) == IF n = 0 THEN 0 ELSE 1 + IntBitLen(n \div 2)

BBitLen(a) ==
    IF a = <<>> THEN 0 ELSE LimbBits * (Len(a) - 1) + IntBitLen(a[Len(a)])

\* Short division by 0 < d < 2^16.  The limbs i..Len(a) of a, taken as a
\* number, leave the remainder BRemFrom(a, d, i); the limb i of the quotient
\* comes from the remainder above it and the limb i of a.
RECURSIVE BRemFrom(_, _, _)
BRemFrom(a, d, i) ==
    IF i > Len(a) THEN 0 ELSE (BRemFrom(a, d, i + 1) * Limb + a[i]) % d

RECURSIVE BQuotAt(_, _, _)
BQuotAt(a, d, i) ==
    IF i > Len(a) THEN <<>>
    ELSE <<(BRemFrom(a, d, i + 1) * Limb + a[i]) \div d>> \o BQuotAt(a, d, i + 1)

\* floor(a / d) and the remainder
BDivSmall(a, d) == [q |-> BTrim(BQuotAt(a, d, 1)), r |-> BRemFrom(a, d, 1)]

Max(x, y) == IF x >= y THEN x ELSE y

Min(x, y) == IF x <= y THEN x ELSE y

(***************************************************************************)
(* Round to nearest, ties to even.  The exact value is n * 2^x (n a        *)
(* natural); the result [m, q] is the nearest m * 2^q with m of at most p  *)
(* bits (or exactly 2^p, the carry of a round-up) and q >= qmin, the       *)
(* exponent of the format's smallest subnormal.                            *)
(***************************************************************************)
\* t is floor(n / 2^d): round up when the dropped bits exceed half a unit,
\* or equal it and t is odd.
RoundUp(n, d, t, q) ==
    IF BBit(n, d - 1) = 1 /\ (~BLowZero(n, d - 1) \/ BBit(t, 0) = 1)
    THEN [m |-> BAdd(t, <<1>>), q |-> q]
    ELSE [m |-> t, q |-> q]

RoundAt(n, x, q) ==
    IF q <= x THEN [m |-> BShl(n, x - q), q |-> q]
    ELSE RoundUp(n, q - x, BShr(n, q - x), q)

RoundNE(n, x, p, qmin) == RoundAt(n, x, Max(x + BBitLen(n) - p, qmin))

(***************************************************************************)
(* binary64 values, kept as [neg, m, q]: (-1)^neg * m * 2^q with m a       *)
(* natural of at most 53 bits (already rounded).  Infinities and NaNs do   *)
(* not arise: every operand of the program is bounded (|tilt| <= 2,        *)
(* |velocity| <= 1, 0 <= position < 30).                                   *)
(***************************************************************************)
MkDouble(neg, r) == [neg |-> neg, m |-> r.m, q |-> r.q]

ToDouble(neg, n, x) ==
    IF n = <<>> THEN [neg |-> neg, m |-> <<>>, q |-> 0]
    ELSE MkDouble(neg, RoundNE(n, x, 53, -1074))

\* The exact signed sum of na * 2^x (negative if aneg) and nb * 2^x, as
\* [neg, n, x]; c compares na with nb.  A zero sum of opposite signs is +0.
SignedSum(aneg, na, bneg, nb, x, c) ==
    IF aneg = bneg THEN [neg |-> aneg, n |-> BAdd(na, nb), x |-> x]
    ELSE IF c = 0 THEN [neg |-> FALSE, n |-> <<>>, x |-> x]
    ELSE IF c > 0 THEN [neg |-> aneg, n |-> BSub(na, nb), x |-> x]
    ELSE [neg |-> bneg, n |-> BSub(nb, na), x |-> x]

AlignedSum(aneg, na, bneg, nb, x) ==
    SignedSum(aneg, na, bneg, nb, x, BCmp(na, nb))

ExactSumAt(a, b, x) ==
    AlignedSum(a.neg, BShl(a.m, a.q - x), b.neg, BShl(b.m, b.q - x), x)

\* a + b exactly; a zero operand leaves the other one as it is, and the sum
\* of two zeros is -0 only if both are.
ExactSum(a, b) ==
    IF b.m = <<>>
    THEN [neg |-> IF a.m = <<>> THEN a.neg /\ b.neg ELSE a.neg,
          n |-> a.m, x |-> a.q]
    ELSE IF a.m = <<>> THEN [neg |-> b.neg, n |-> b.m, x |-> b.q]
    ELSE ExactSumAt(a, b, Min(a.q, b.q))

SumToDouble(s) == ToDouble(s.neg, s.n, s.x)

DAdd(a, b) == SumToDouble(ExactSum(a, b))

DNeg(a) == [a EXCEPT !.neg = ~a.neg]

DSub(a, b) == DAdd(a, DNeg(b))

DMul(a, b) == ToDouble(a.neg # b.neg, BMul(a.m, b.m), a.q + b.q)

\* d is the quotient and remainder of num * 2^70 by den: the quotient with a
\* sticky bit for the remainder, rounded.
QuotToDouble(neg, d, x) ==
    ToDouble(neg, BAdd(BShl(d.q, 1), IF d.r = 0 THEN <<>> ELSE <<1>>), x - 71)

\* num * 2^x / den (0 < den < 2^16), correctly rounded.
DQuot(neg, num, x, den) ==
    QuotToDouble(neg, BDivSmall(BShl(num, 70), den), x)

\* a / den for a double a and an integer-valued double den
DDivInt(a, den) == DQuot(a.neg, a.m, a.q, den)

\* The double a decimal literal num/den (such as 0.98 = 98/100) denotes.
DLit(num, den) == DQuot(FALSE, BFromInt(num), 0, den)

\* (double)n for an int n
IntToDouble(n) ==
    [neg |-> n < 0, m |-> BFromInt(IF n < 0 THEN -n ELSE n), q |-> 0]

(***************************************************************************)
(* binary32 values, kept as [neg, bits]: the sign and the 31 low bits of   *)
(* the IEEE encoding (8 exponent bits, 23 fraction bits).                  *)
(***************************************************************************)
FracBits == 2^23

FMant(f) == IF f.bits < FracBits THEN f.bits ELSE (f.bits % FracBits) + FracBits

FExp(f) == IF f.bits < FracBits THEN -149 ELSE (f.bits \div FracBits) - 150

\* The encoding of mi * 2^q: subnormal (q = -149) below 2^23, else normal.
PackBits(neg, mi, q) ==
    [neg |-> neg,
     bits |-> IF mi < FracBits THEN mi ELSE (q + 149) * FracBits + mi]

PackFloat(neg, r) == PackBits(neg, BToInt(r.m), r.q)

\* The float nearest to n * 2^x.
ToFloat(neg, n, x) ==
    IF n = <<>> THEN [neg |-> neg, bits |-> 0]
    ELSE PackFloat(neg, RoundNE(n, x, 24, -149))

\* (double)f
FloatToDouble(f) == [neg |-> f.neg, m |-> BFromInt(FMant(f)), q |-> FExp(f)]

\* (float)d
DoubleToFloat(d) == ToFloat(d.neg, d.m, d.q)

SumToFloat(s) == ToFloat(s.neg, s.n, s.x)

\* An operand with all exponent bits set is an infinity or a NaN.  The
\* arithmetic below is that of finite operands; a non-finite operand, which
\* the bounds above exclude, makes the result NaN.
Finite(f) == f.bits < 255 * FracBits

NaN == [neg |-> FALSE, bits |-> 255 * FracBits + FracBits \div 2]

FAdd(f, g) ==
    IF Finite(f) /\ Finite(g)
    THEN SumToFloat(ExactSum(FloatToDouble(f), FloatToDouble(g)))
    ELSE NaN

FMul(f, g) ==
    IF Finite(f) /\ Finite(g)
    THEN ToFloat(f.neg # g.neg, BMul(BFromInt(FMant(f)), BFromInt(FMant(g))),
                 FExp(f) + FExp(g))
    ELSE NaN

FNeg(f) == [f EXCEPT !.neg = ~f.neg]

\* Order-preserving integer key; +0 and -0 share the key 0.
FKey(f) == IF f.neg THEN -f.bits ELSE f.bits

FLt(f, g) == FKey(f) < FKey(g)

FGt(f, g) == FKey(f) > FKey(g)

FGe(f, g) == FKey(f) >= FKey(g)

\* float op double, evaluated in double and stored back to a float
FMulD(f, d) ==
    IF Finite(f) THEN DoubleToFloat(DMul(FloatToDouble(f), d)) ELSE NaN

FAddD(f, d) ==
    IF Finite(f) THEN DoubleToFloat(DAdd(FloatToDouble(f), d)) ELSE NaN

FSubD(f, d) ==
    IF Finite(f) THEN DoubleToFloat(DSub(FloatToDouble(f), d)) ELSE NaN

\* (float)n for an int n
IntToFloat(n) == DoubleToFloat(IntToDouble(n))

(***************************************************************************)
(* Program constants (main.cpp lines 9-20) and the literals of the         *)
(* expressions.                                                            *)
(***************************************************************************)
NUM_LEDS == 30

\* const float BOUNCE_DAMPING = 0.85;
BOUNCE_DAMPING == DoubleToFloat(DLit(85, 100))

\* const float MAX_VELOCITY = 1.0;
MAX_VELOCITY == DoubleToFloat(DLit(10, 10))

\* g_tilt_x * 0.2  (line 133)
Sensitivity == DLit(2, 10)

\* Variant: the drag factor left at 1, a velocity that never decays.
NoDrag == IntToDouble(1)

\* water_vel *= 0.98  (line 137)
Drag == DLit(98, 100)

\* flow_time_offset += 0.05  (line 161)
ShimmerStep == DLit(5, 100)

\* Variant: the upper reflection snapping to the strip length itself.
UpperEdge == IntToFloat(NUM_LEDS)

\* (float)NUM_LEDS - 0.001, stored to the float water_pos  (line 153)
UpperInset == FSubD(IntToFloat(NUM_LEDS), DLit(1, 1000))

\* #define constrain(amt,low,high) ((amt)<(low)?(low):((amt)>(high)?(high):(amt)))
constrain(amt, low, high) ==
    IF FLt(amt, low) THEN low ELSE IF FGt(amt, high) THEN high ELSE amt

(***************************************************************************)
(* sin on doubles, for 0 <= x < 8 with x = 0 or x >= 2^-12 (the arguments  *)
(* millis()/1000.0 * 0.5 takes in the modelled runs).  The Taylor series   *)
(* is summed in fixed point with 90 fraction bits, the positive and the    *)
(* negative terms apart, and the sum rounded to a double: the correctly    *)
(* rounded sine unless the true value lies within 2^-80 of a rounding      *)
(* boundary.                                                               *)
(***************************************************************************)
SinFracBits == 6 * LimbBits

\* (a * b) / 2^SinFracBits on fixed-point naturals
FixMul(a, b) == BShr(BMul(a, b), SinFracBits)

\* The terms x^(2k+1)/(2k+1)! from the k-th on, added to the sums pos (even
\* k) and neg (odd k); the result is <<pos, neg>>.
RECURSIVE SinTerms(_, _, _, _, _)
SinTerms(term, x2, k, pos, neg) ==
    IF term = <<>> THEN <<pos, neg>>
    ELSE SinTerms(BDivSmall(FixMul(term, x2), (2 * k + 2) * (2 * k + 3)).q,
                  x2, k + 1,
                  IF k % 2 = 0 THEN BAdd(pos, term) ELSE pos,
                  IF k % 2 = 0 THEN neg ELSE BAdd(neg, term))

SinDiff(dneg, t, ge) ==
    IF t[1] = t[2] THEN [neg |-> FALSE, m |-> <<>>, q |-> 0]
    ELSE IF ge THEN ToDouble(dneg, BSub(t[1], t[2]), -SinFracBits)
    ELSE ToDouble(~dneg, BSub(t[2], t[1]), -SinFracBits)

SinSum(dneg, t) == SinDiff(dneg, t, BCmp(t[1], t[2]) >= 0)

SinFixed(dneg, x) == SinSum(dneg, SinTerms(x, FixMul(x, x), 0, <<>>, <<>>))

SinD(d) ==
    SinFixed(d.neg, IF d.q + SinFracBits >= 0
                    THEN BShl(d.m, d.q + SinFracBits)
                    ELSE BShr(d.m, -(d.q + SinFracBits)))

(***************************************************************************)
(* Core 0: read_mpu6050, setup, loop (lines 40-115).                       *)
(***************************************************************************)

\* int16_t rawX = Wire.read() << 8 | Wire.read();  (line 54)
Int16(u) == IF u >= 32768 THEN u - 65536 ELSE u

RawX(hi, lo) == Int16(hi * 256 + lo)

\* accX = (float)rawX / 16384.0;  (line 59)
AccX(hi, lo) ==
    DoubleToFloat(DDivInt(FloatToDouble(IntToFloat(RawX(hi, lo))), 16384))

\* float time_sec = millis() / 1000.0;  (line 108)
TimeSec(ms) == DoubleToFloat(DDivInt(IntToDouble(ms), 1000))

\* g_tilt_x = sin(time_sec * 0.5) * 0.8;  (line 110)
SimTilt(ms) ==
    DoubleToFloat(DMul(SinD(DMul(FloatToDouble(TimeSec(ms)), DLit(5, 10))),
                       DLit(8, 10)))

(***************************************************************************)
(* Core 1: the physics of update_led_strip (lines 132-155), as a function  *)
(* of the particle state and the tilt value read.  Besides the new         *)
(* position and velocity the result names the tick's intermediate values:  *)
(* vc, the velocity after constrain; adv, the position after line 143;     *)
(* clamped, whether constrain changed the velocity; branch, the arm of the *)
(* boundary test taken.                                                    *)
(***************************************************************************)

\* water_pos < 0  (line 146)
BelowStrip(p) == FLt(p, IntToFloat(0))

\* Variant: the upper boundary test written with > in place of >=.
PastStrip(p) == FGt(p, IntToFloat(NUM_LEDS))

\* water_pos >= NUM_LEDS  (line 151)
BeyondStrip(p) == FGe(p, IntToFloat(NUM_LEDS))

\* Variant: a reflection that damps the velocity but keeps its sign.
Damp(v) == FMul(v, BOUNCE_DAMPING)

\* -water_vel * BOUNCE_DAMPING  (lines 149, 154)
Reflect(v) == FMul(FNeg(v), BOUNCE_DAMPING)

\* Variant: the velocity left unconstrained.
Unclamped(v) == v

\* constrain(water_vel, -MAX_VELOCITY, MAX_VELOCITY)  (line 140)
ClampVelocity(v) == constrain(v, FNeg(MAX_VELOCITY), MAX_VELOCITY)

\* Variant: the tilt acceleration applied with the opposite sign.
AccelerateAgainst(vel, tilt) ==
    FMulD(FAdd(vel, FNeg(FMulD(tilt, Sensitivity))), Drag)

\* tilt_accel = g_tilt_x * 0.2; water_vel += tilt_accel; water_vel *= 0.98;
Accelerate(vel, tilt) == FMulD(FAdd(vel, FMulD(tilt, Sensitivity)), Drag)

TickResult(pos, vel, branch, vc, adv, clamped) ==
    [pos |-> pos, vel |-> vel,
     branch |-> branch, vc |-> vc, adv |-> adv, clamped |-> clamped]

\* The boundary test (lines 146-155) on the advanced position adv.
Bounce(vc, adv, clamped) ==
    IF BelowStrip(adv)
    THEN TickResult(IntToFloat(0), Reflect(vc), "lower", vc, adv, clamped)
    ELSE IF BeyondStrip(adv)
    THEN TickResult(UpperInset, Reflect(vc), "upper", vc, adv, clamped)
    ELSE TickResult(adv, vc, "inside", vc, adv, clamped)

\* water_pos += water_vel  (line 143)
Advance(pos, vc, clamped) == Bounce(vc, FAdd(pos, vc), clamped)

Integrate(pos, v2) == Advance(pos, ClampVelocity(v2), ClampVelocity(v2) # v2)

Physics(pos, vel, tilt) == Integrate(pos, Accelerate(vel, tilt))

(***************************************************************************)
(* The frame update_led_strip leaves in leds[] (lines 157-181) is a pure   *)
(* function of the particle position and the shimmer phase it is drawn     *)
(* from; the model keeps those two arguments in place of the 30 colours    *)
(* (exp and sin per pixel are not expanded).  The glyph bar                *)
(* create_ascii_visualization derives (lines 185-212) is likewise kept as  *)
(* the frame it was derived from.                                          *)
(***************************************************************************)
BlackFrame == [lit |-> FALSE]

GlowFrame(pos, phase) == [lit |-> TRUE, center |-> pos, shimmer |-> phase]

GlyphBar(frame) == [of |-> frame]

\* What the last update_led_strip read and computed on its way (observation
\* only): the position, velocity and tilt it started from, the velocity
\* after the clamp, the position after the advance, whether the clamp
\* changed the velocity, and the arm of the boundary test it took.
Observed(ph, pos0, vel0, tilt) ==
    [branch |-> ph.branch, vc |-> ph.vc, adv |-> ph.adv,
     clamped |-> ph.clamped, pos0 |-> pos0, vel0 |-> vel0, tilt |-> tilt]

NoTick ==
    [branch |-> "none", vc |-> IntToFloat(0), adv |-> IntToFloat(0),
     clamped |-> FALSE, pos0 |-> IntToFloat(0), vel0 |-> IntToFloat(0),
     tilt |-> IntToFloat(0)]

\* History of the ticks so far: how many clamped the velocity, how many took
\* each boundary arm (not program state).
Tally(count, ph) ==
    [clamps |-> count.clamps + (IF ph.clamped THEN 1 ELSE 0),
     uppers |-> count.uppers + (IF ph.branch = "upper" THEN 1 ELSE 0),
     lowers |-> count.lowers + (IF ph.branch = "lower" THEN 1 ELSE 0)]

Render(c, tilt, ph, phase) ==
    [water_pos        |-> ph.pos,
     water_vel        |-> ph.vel,
     flow_time_offset |-> phase,
     leds             |-> GlowFrame(ph.pos, phase),
     last             |-> Observed(ph, c.water_pos, c.water_vel, tilt),
     count            |-> Tally(c.count, ph)]

\* update_led_strip() on the core-1 state c, reading the tilt value tilt.
update_led_strip(c, tilt) ==
    Render(c, tilt, Physics(c.water_pos, c.water_vel, tilt),
           FAddD(c.flow_time_offset, ShimmerStep))

\* Globals of core 1 after construction (lines 30-33).
Core1Init ==
    [water_pos        |-> DoubleToFloat(DDivInt(FloatToDouble(IntToFloat(NUM_LEDS)), 2)),
     water_vel        |-> DoubleToFloat(DLit(0, 10)),
     flow_time_offset |-> DoubleToFloat(DLit(0, 10)),
     leds             |-> BlackFrame,
     last             |-> NoTick,
     count            |-> [clamps |-> 0, uppers |-> 0, lowers |-> 0]]

(***************************************************************************)
(* The I2C bus is the environment: each endTransmission returns a status   *)
(* (0 success, 2 address not acknowledged) and each requestFrom the number *)
(* of bytes received; the first two data bytes are the sample.             *)
(***************************************************************************)
WireStatus == {0, 2}

ByteCounts == {0, 5, 6}

\* <<ACCEL_XOUT_H, ACCEL_XOUT_L>>: -2 G, 0, +1 G, the largest reading
RawSamples == {<<128, 0>>, <<0, 0>>, <<64, 0>>, <<127, 255>>}

NotCalled == 0 - 1

\* read_mpu6050 (lines 40-61) given the bus's answers: whether it succeeded,
\* the value left in accX, and what the bus saw.
read_mpu6050(status, nbytes, sample) ==
    IF status # 0
    THEN [ok |-> FALSE, status |-> status, nbytes |-> NotCalled]
    ELSE IF nbytes # 6
    THEN [ok |-> FALSE, status |-> status, nbytes |-> nbytes]
    ELSE [ok |-> TRUE, status |-> status, nbytes |-> nbytes,
          accX |-> AccX(sample[1], sample[2])]

\* delay(20) at the end of loop(), delay(100) and delay(50) in setup()
LoopDelay == 20

ProbeDelay == 100

WakeDelay == 50

VARIABLES
    pc0,                \* core 0: "setup" before setup() has run, then "loop"
    g_tilt_x,           \* volatile float g_tilt_x
    g_sensor_connected, \* volatile bool g_sensor_connected
    now,                \* millis()
    boot,               \* the bus's answers to setup(): [probe, wake]
    bus,                \* loop()'s bus traffic: the reads attempted, how
                        \* many failed, the answers to the last one
    sensor_ticks,       \* loop() iterations explored
    pc1,                \* core 1: "setup1", "update", "ascii", "print"
    water_pos, water_vel, flow_time_offset, leds,
    ascii_visual,       \* static char ascii_visual[NUM_LEDS + 1]
    serial_tag,         \* the status tag of the last line printed
    last,               \* intermediate values of the last update_led_strip
    count,              \* history: ticks that clamped, that bounced
    frames,             \* update_led_strip calls explored
    script              \* the directed opening of a run still to be played
                        \* (empty: every step of either core may come next)

core0 == <<pc0, g_tilt_x, g_sensor_connected, now, boot, bus, sensor_ticks>>

core1 == <<pc1, water_pos, water_vel, flow_time_offset, leds, last, count,
           ascii_visual, serial_tag>>

explored == <<frames, script>>

vars == <<pc0, g_tilt_x, g_sensor_connected, now, boot, bus, sensor_ticks,
          pc1, water_pos, water_vel, flow_time_offset, leds, last, count,
          ascii_visual, serial_tag, frames, script>>

\* Bounds of the exploration.
MaxSensorTicks == 3

MaxFrames == 2

MaxPhysTicks == 4

ScenarioTicks == 100

MaxCoastTicks == 4960

Core1 ==
    [water_pos |-> water_pos, water_vel |-> water_vel,
     flow_time_offset |-> flow_time_offset, leds |-> leds,
     last |-> last, count |-> count]

SetCore1(c) ==
    /\ water_pos' = c.water_pos
    /\ water_vel' = c.water_vel
    /\ flow_time_offset' = c.flow_time_offset
    /\ leds' = c.leds
    /\ last' = c.last
    /\ count' = c.count

InitCore1(c) ==
    /\ water_pos = c.water_pos
    /\ water_vel = c.water_vel
    /\ flow_time_offset = c.flow_time_offset
    /\ leds = c.leds
    /\ last = c.last
    /\ count = c.count

NoBus ==
    [reads |-> 0, failed |-> 0, status |-> NotCalled, nbytes |-> NotCalled]

Init ==
    /\ pc0 = "setup"
    /\ g_tilt_x = DoubleToFloat(DLit(0, 10))
    /\ g_sensor_connected = FALSE
    /\ now = 0
    /\ boot = [probe |-> NotCalled, wake |-> NotCalled]
    /\ bus = NoBus
    /\ sensor_ticks = 0
    /\ pc1 = "setup1"
    /\ InitCore1(Core1Init)
    /\ ascii_visual = GlyphBar(BlackFrame)
    /\ serial_tag = "none"
    /\ frames = 0
    /\ script = <<>>

(***************************************************************************)
(* The steps of the two cores.  Core 0 runs setup() and then loop() again  *)
(* and again, each as one step: the only shared variables are written in   *)
(* them, once each.  Core 1 runs setup1() and then loop1() in three steps, *)
(* with core 0 free to run between them: update_led_strip(), which reads   *)
(* g_tilt_x once (line 133); FastLED.show() and the glyph bar; the status  *)
(* line, which reads g_sensor_connected (line 230), and the delay.         *)
(***************************************************************************)

\* Variant: setup() marking the sensor connected only if the wake command
\* was acknowledged too.
setupCheckingWake(probe, wake) ==
    /\ pc0 = "setup"
    /\ IF probe = 0
       THEN /\ boot' = [probe |-> probe, wake |-> wake]
            /\ now' = now + ProbeDelay + WakeDelay
            /\ g_sensor_connected' = (wake = 0)
       ELSE /\ boot' = [probe |-> probe, wake |-> NotCalled]
            /\ now' = now + ProbeDelay
            /\ g_sensor_connected' = FALSE
    /\ pc0' = "loop"
    /\ UNCHANGED <<g_tilt_x, bus, sensor_ticks>>
    /\ UNCHANGED core1

\* setup() (lines 63-89): probe the device; on an acknowledged probe send the
\* wake command, whose status is discarded, and mark the sensor connected.
setup(probe, wake) ==
    /\ pc0 = "setup"
    /\ IF probe = 0
       THEN /\ boot' = [probe |-> probe, wake |-> wake]
            /\ now' = now + ProbeDelay + WakeDelay
            /\ g_sensor_connected' = TRUE
       ELSE /\ boot' = [probe |-> probe, wake |-> NotCalled]
            /\ now' = now + ProbeDelay
            /\ g_sensor_connected' = FALSE
    /\ pc0' = "loop"
    /\ UNCHANGED <<g_tilt_x, bus, sensor_ticks>>
    /\ UNCHANGED core1

\* The bus record after one more read_mpu6050 with result r.
BusAfter(r) ==
    [reads |-> bus.reads + 1,
     failed |-> bus.failed + (IF r.ok THEN 0 ELSE 1),
     status |-> r.status, nbytes |-> r.nbytes]

\* Variant: a failed read publishing a level strip in place of no value.
HardwareReadingOrLevel(r) ==
    /\ bus' = BusAfter(r)
    /\ g_tilt_x' = IF r.ok THEN r.accX ELSE IntToFloat(0)

\* if (read_mpu6050(new_accel_x)) g_tilt_x = new_accel_x;  (lines 97-101)
HardwareReading(r) ==
    /\ bus' = BusAfter(r)
    /\ g_tilt_x' = IF r.ok THEN r.accX ELSE g_tilt_x

\* g_tilt_x = sin(time_sec * 0.5) * 0.8;  (lines 108-110)
SimulatedFallback ==
    /\ g_tilt_x' = SimTilt(now)
    /\ bus' = bus

\* Variant: loop() giving the sensor up for lost after a failed read.
loopDroppingSensor(status, nbytes, sample) ==
    /\ pc0 = "loop"
    /\ sensor_ticks < MaxSensorTicks
    /\ IF g_sensor_connected
       THEN /\ HardwareReading(read_mpu6050(status, nbytes, sample))
            /\ g_sensor_connected' = read_mpu6050(status, nbytes, sample).ok
       ELSE /\ SimulatedFallback
            /\ g_sensor_connected' = g_sensor_connected
    /\ now' = now + LoopDelay
    /\ sensor_ticks' = sensor_ticks + 1
    /\ UNCHANGED <<pc0, boot>>
    /\ UNCHANGED core1

\* One iteration of loop() (lines 91-115).
loop(status, nbytes, sample) ==
    /\ pc0 = "loop"
    /\ sensor_ticks < MaxSensorTicks
    /\ IF g_sensor_connected
       THEN HardwareReading(read_mpu6050(status, nbytes, sample))
       ELSE SimulatedFallback
    /\ now' = now + LoopDelay
    /\ sensor_ticks' = sensor_ticks + 1
    /\ UNCHANGED <<pc0, g_sensor_connected, boot>>
    /\ UNCHANGED core1

\* setup1() (lines 121-127): driver and serial initialisation only.
setup1 ==
    /\ pc1 = "setup1"
    /\ pc1' = "update"
    /\ UNCHANGED <<water_pos, water_vel, flow_time_offset, leds, last, count,
                   ascii_visual, serial_tag>>
    /\ UNCHANGED core0

\* Variant: update_led_strip() clearing the tilt value it has consumed.
loop1_update_consuming ==
    /\ pc1 = "update"
    /\ SetCore1(update_led_strip(Core1, g_tilt_x))
    /\ pc1' = "ascii"
    /\ g_tilt_x' = IntToFloat(0)
    /\ UNCHANGED <<ascii_visual, serial_tag>>
    /\ UNCHANGED <<pc0, g_sensor_connected, now, boot, bus, sensor_ticks>>

\* loop1(), line 217: update_led_strip().
loop1_update ==
    /\ pc1 = "update"
    /\ SetCore1(update_led_strip(Core1, g_tilt_x))
    /\ pc1' = "ascii"
    /\ UNCHANGED <<ascii_visual, serial_tag>>
    /\ UNCHANGED core0

\* loop1(), lines 220-225: show the frame, derive the glyph bar.
loop1_ascii ==
    /\ pc1 = "ascii"
    /\ ascii_visual' = GlyphBar(leds)
    /\ pc1' = "print"
    /\ UNCHANGED <<water_pos, water_vel, flow_time_offset, leds, last, count,
                   serial_tag>>
    /\ UNCHANGED core0

\* loop1(), lines 229-240: print the status line and wait.
loop1_print ==
    /\ pc1 = "print"
    /\ serial_tag' = IF g_sensor_connected THEN "[H/W]" ELSE "[SIM]"
    /\ pc1' = "update"
    /\ UNCHANGED <<water_pos, water_vel, flow_time_offset, leds, last, count,
                   ascii_visual>>
    /\ UNCHANGED core0

(***************************************************************************)
(* The program from construction: every interleaving of the two cores,     *)
(* every answer of the bus.                                                *)
(***************************************************************************)
Setup ==
    /\ \E probe \in WireStatus, wake \in WireStatus : setup(probe, wake)
    /\ UNCHANGED explored

Loop ==
    /\ \E status \in WireStatus, nbytes \in ByteCounts, sample \in RawSamples :
           loop(status, nbytes, sample)
    /\ UNCHANGED explored

Setup1 == setup1 /\ UNCHANGED explored

Loop1Update ==
    /\ frames < MaxFrames
    /\ loop1_update
    /\ frames' = frames + 1
    /\ script' = script

Loop1Ascii == loop1_ascii /\ UNCHANGED explored

Loop1Print == loop1_print /\ UNCHANGED explored

Next == Setup \/ Loop \/ Setup1 \/ Loop1Update \/ Loop1Ascii \/ Loop1Print

Spec == Init /\ [][Next]_vars

(***************************************************************************)
(* The particle far from construction.  The cases of interest (the ends of *)
(* the strip, the full speed, the end of a long decay) lie tens to         *)
(* thousands of frames into a run, so these specifications start once both *)
(* cores have started and the sensor was found, play a directed opening,   *)
(* and then let every step of either core come next.  An opening is a      *)
(* script of steps of the program: <<"read", sample>> is an iteration of   *)
(* loop() that reads the sample, <<"draw", n>> is n rounds of loop1().     *)
(* After it, loop() iterations that read a sample and the three steps of   *)
(* loop1() interleave freely.                                              *)
(***************************************************************************)

\* Core 0 once setup() has found the sensor, core 1 once setup1() is done.
Started ==
    /\ pc0 = "loop"
    /\ g_sensor_connected = TRUE
    /\ boot = [probe |-> 0, wake |-> 0]
    /\ now = ProbeDelay + WakeDelay
    /\ bus = NoBus
    /\ sensor_ticks = 0
    /\ g_tilt_x = DoubleToFloat(DLit(0, 10))
    /\ pc1 = "update"
    /\ InitCore1(Core1Init)
    /\ ascii_visual = GlyphBar(BlackFrame)
    /\ serial_tag = "none"
    /\ frames = 0

\* The script after one round of loop1().
Rest(s) ==
    IF s[1][2] > 1 THEN <<<<"draw", s[1][2] - 1>>>> \o Tail(s) ELSE Tail(s)

\* The opening's next step is a loop() iteration reading its sample.
ScriptedRead ==
    /\ script # <<>>
    /\ script[1][1] = "read"
    /\ loop(0, 6, script[1][2])
    /\ script' = Tail(script)
    /\ frames' = frames

\* update_led_strip(): the next step of the opening, or one more of at most
\* max calls after it.
Update(max) ==
    /\ IF script = <<>>
       THEN frames < max /\ frames' = frames + 1
       ELSE script[1][1] = "draw" /\ frames' = frames
    /\ loop1_update
    /\ script' = script

\* The status line ends a round of loop1().
StatusLine ==
    /\ loop1_print
    /\ script' = IF script = <<>> THEN script ELSE Rest(script)
    /\ frames' = frames

\* After the opening: a loop() iteration reads the sample.
Read(sample) ==
    /\ script = <<>>
    /\ loop(0, 6, sample)
    /\ UNCHANGED explored

(***************************************************************************)
(* The particle under every sequence of readings.                          *)
(***************************************************************************)
\* +1 G for 17 frames: at full speed, a step short of the upper end.
\* -2 G for 16 frames, then the largest reading for 29: position 29.0 with
\* velocity 1.0, so that the next advance can land on 30.0 exactly.
\* -2 G for 15 frames: at full speed, a step short of the lower end.
\* +1 G for 38 frames: pinned against the upper end.
Scripts ==
    {<<>>,
     << <<"read", <<64, 0>>>>, <<"draw", 17>> >>,
     << <<"read", <<128, 0>>>>, <<"draw", 16>>,
        <<"read", <<127, 255>>>>, <<"draw", 29>> >>,
     << <<"read", <<128, 0>>>>, <<"draw", 15>> >>,
     << <<"read", <<64, 0>>>>, <<"draw", 38>> >>}

InitPhysics == Started /\ script \in Scripts

SensedRead == \E sample \in RawSamples : Read(sample)

PhysicsUpdate == Update(MaxPhysTicks)

NextPhysics ==
    ScriptedRead \/ SensedRead \/ PhysicsUpdate \/ Loop1Ascii \/ StatusLine

SpecPhysics == InitPhysics /\ [][NextPhysics]_vars

(***************************************************************************)
(* The level strip: the opening sets the particle moving and ends with a   *)
(* reading of 0 G; the sensor reads 0 G from then on, for as many frames   *)
(* as the decay of the velocity takes.                                     *)
(***************************************************************************)
\* +1 G or -1 G for one frame: set moving from the middle.
\* +1 G for 17 frames, -2 G for 15: about to reach an end at full speed.
CoastScripts ==
    {<<>>,
     << <<"read", <<64, 0>>>>, <<"draw", 1>>, <<"read", <<0, 0>>>> >>,
     << <<"read", <<192, 0>>>>, <<"draw", 1>>, <<"read", <<0, 0>>>> >>,
     << <<"read", <<64, 0>>>>, <<"draw", 17>>, <<"read", <<0, 0>>>> >>,
     << <<"read", <<128, 0>>>>, <<"draw", 15>>, <<"read", <<0, 0>>>> >>}

InitCoast == Started /\ script \in CoastScripts

LevelRead == Read(<<0, 0>>)

CoastUpdate == Update(MaxCoastTicks)

NextCoast == ScriptedRead \/ LevelRead \/ CoastUpdate \/ Loop1Ascii \/ StatusLine

SpecCoast == InitCoast /\ [][NextCoast]_vars

(***************************************************************************)
(* The tilted-strip scenario: the board held at +1 G from construction on, *)
(* read by the sensor before the first frame and whenever loop() runs      *)
(* again.                                                                  *)
(***************************************************************************)
InitScenario == Started /\ script = << <<"read", <<64, 0>>>> >>

HeldRead == Read(<<64, 0>>)

ScenarioUpdate == Update(ScenarioTicks)

NextScenario ==
    ScriptedRead \/ HeldRead \/ ScenarioUpdate \/ Loop1Ascii \/ StatusLine

SpecScenario == InitScenario /\ [][NextScenario]_vars

(***************************************************************************)
(* Properties of the particle, over SpecPhysics.  last holds what the      *)
(* latest update_led_strip started from and computed on its way, so each   *)
(* is a statement about one tick, checked after every tick of every run.   *)
(* A step from pc1 = "update" to pc1 = "ascii" is a tick.                  *)
(***************************************************************************)

\* C1: after every animation tick, whatever tilt values the sensor loop has
\* published, the particle position is at least 0 and strictly below
\* NUM_LEDS.
C1_PositionInStrip ==
    /\ Finite(water_pos)
    /\ FGe(water_pos, IntToFloat(0))
    /\ FLt(water_pos, IntToFloat(NUM_LEDS))

\* A tick whose advance went below 0 and was reflected to 0.
C1_Reflected ==
    /\ last.branch = "lower"
    /\ FLt(last.adv, IntToFloat(0))
    /\ water_pos = IntToFloat(0)

\* C2: after every animation tick the velocity magnitude is at most
\* MAX_VELOCITY, both right after the constrain step and at the end of the
\* tick, after a reflection has rewritten the velocity.
C2_VelocityBounded ==
    /\ Finite(last.vc) /\ last.vc.bits <= MAX_VELOCITY.bits
    /\ Finite(water_vel) /\ water_vel.bits <= MAX_VELOCITY.bits

\* A tick whose velocity constrain had to cut down, followed by a reflection
\* in the same tick.
C2_ClampedThenReflected ==
    /\ last.clamped
    /\ last.vc.bits = MAX_VELOCITY.bits
    /\ last.branch \in {"lower", "upper"}
    /\ water_vel.bits < MAX_VELOCITY.bits

\* C7: on any tick whose advanced position (position plus constrained
\* velocity) is at least NUM_LEDS, exactly NUM_LEDS included, the position
\* after the tick is NUM_LEDS - 0.001 and the velocity after the tick is
\* -0.85 times the tick's constrained velocity.
C7_UpperReflection ==
    (last.branch # "none" /\ FGe(FAdd(last.pos0, last.vc), IntToFloat(NUM_LEDS)))
        => /\ water_pos = FSubD(IntToFloat(NUM_LEDS), DLit(1, 1000))
           /\ water_vel = FNeg(FMul(last.vc, DoubleToFloat(DLit(85, 100))))
           /\ last.branch = "upper"

\* A tick whose advance landed on NUM_LEDS exactly, and was reflected.
C7_LandedOnEdge ==
    /\ last.adv = IntToFloat(NUM_LEDS)
    /\ last.adv = FAdd(last.pos0, last.vc)
    /\ last.branch = "upper"
    /\ water_pos = UpperInset

\* C9 as stated: for any tilt values, a tick that takes the upper-boundary
\* branch is never followed by a tick that takes it again.
C9_NeverTwiceInARow ==
    [][(pc1 = "update" /\ pc1' = "ascii" /\ last.branch = "upper")
            => last'.branch # "upper"]_vars

\* C9 as amended: a tick that takes the upper-boundary branch is not followed
\* by a tick that takes it again if the tilt value the following tick reads
\* is zero or negative.
C9_NotTwiceUnlessTilted ==
    [][(/\ pc1 = "update" /\ pc1' = "ascii"
        /\ last.branch = "upper"
        /\ ~FGt(last'.tilt, IntToFloat(0)))
            => last'.branch # "upper"]_vars

\* The tick after an upper reflection read a tilt of zero or less and stayed
\* inside the strip.
C9_ReboundInside ==
    /\ last.pos0 = UpperInset
    /\ count.uppers >= 1
    /\ ~FGt(last.tilt, IntToFloat(0))
    /\ FLt(last.vel0, IntToFloat(0))
    /\ last.branch = "inside"

(***************************************************************************)
(* The level strip, over SpecCoast.                                        *)
(***************************************************************************)

\* C6: with a tilt of 0 on every tick, the velocity magnitude after a tick
\* is strictly smaller than before it, ticks with a reflection included,
\* until the velocity is numerically zero, and from then on it stays so.
\* Numerically zero is taken as a magnitude of at most 24 units of the
\* smallest subnormal float (24 * 2^-149, about 3.4e-44), the largest
\* magnitude the product with 0.98 does not bring down any more: above it
\* every tick strictly lowers the magnitude, at or below it no tick raises
\* the magnitude, and a velocity of exactly zero stays exactly zero.
C6_DecayUntilNumericallyZero ==
    (last.branch # "none" /\ last.tilt = IntToFloat(0))
        => /\ water_vel.bits <= last.vel0.bits
           /\ last.vel0.bits > 24 => water_vel.bits < last.vel0.bits
           /\ last.vel0.bits <= 24 => water_vel.bits <= 24
           /\ last.vel0.bits = 0 => water_vel.bits = 0

\* A run on the level strip that was reflected at the upper end has decayed
\* all the way: its velocity is numerically zero and the tick left it so.
C6_DecayedThroughReflections ==
    /\ last.tilt = IntToFloat(0)
    /\ count.uppers >= 1
    /\ last.vel0.bits <= 24
    /\ water_vel.bits <= last.vel0.bits

(***************************************************************************)
(* The tilted-strip scenario, over SpecScenario.                           *)
(***************************************************************************)

\* C8: from position 15 and velocity 0, with the tilt held at 1.0 for 100
\* ticks: the velocity rises tick over tick until it is constrained, and is
\* then constrained to MAX_VELOCITY exactly; the position never drops below
\* 15; and by the end at least one upper reflection (position NUM_LEDS -
\* 0.001, velocity negated and scaled by 0.85) has happened.
C8_TiltedScenario ==
    /\ last.branch # "none" => last.tilt = DoubleToFloat(DLit(10, 10))
    /\ FGe(water_pos, DoubleToFloat(DLit(150, 10)))
    /\ (last.branch # "none" /\ count.clamps = 0)
           => FGt(water_vel, last.vel0)
    /\ last.clamped => last.vc = MAX_VELOCITY
    /\ last.branch = "upper"
           => /\ water_pos = FSubD(IntToFloat(NUM_LEDS), DLit(1, 1000))
              /\ water_vel = FNeg(FMul(last.vc, BOUNCE_DAMPING))
    /\ frames = ScenarioTicks => count.clamps >= 1 /\ count.uppers >= 1
    /\ count.lowers = 0

\* The scenario has run its ticks, the velocity was constrained and the
\* particle reflected at the upper end.
C8_ScenarioRan ==
    /\ frames = ScenarioTicks
    /\ count.clamps >= 1
    /\ count.uppers >= 1
    /\ FGt(water_pos, DoubleToFloat(DLit(150, 10)))

(***************************************************************************)
(* Properties of the two cores together, over Spec.  A step of core 0 is   *)
(* one that moves pc0 or counts a loop() iteration; a step of core 1 is    *)
(* one that moves pc1.                                                     *)
(***************************************************************************)

\* C3: the connected flag is assigned only in setup() and never changes
\* afterwards; in a run whose boot probe was acknowledged every loop()
\* iteration goes to the bus and the tilt value changes only by a successful
\* read, never by the simulation, however many reads fail; in a run whose
\* probe was not acknowledged loop() never attempts a read.
C3_ChoiceMadeOnce ==
    [][/\ g_sensor_connected' # g_sensor_connected => pc0 = "setup"
       /\ pc0 = "loop" => g_sensor_connected = (boot.probe = 0)
       /\ (pc0 = "loop" /\ boot.probe = 0 /\ sensor_ticks' # sensor_ticks)
              => /\ bus'.reads = bus.reads + 1
                 /\ g_tilt_x' # g_tilt_x => bus'.status = 0 /\ bus'.nbytes = 6
       /\ (pc0 = "loop" /\ boot.probe # 0) => bus' = NoBus]_vars

\* The probe was acknowledged, reads have failed one after the other, and
\* the sensor is still marked connected with no value published.
C3_FailuresKeepHardwarePath ==
    /\ boot.probe = 0
    /\ g_sensor_connected
    /\ bus.failed >= 2
    /\ bus.failed = bus.reads
    /\ g_tilt_x = IntToFloat(0)

\* C4: when the sensor is marked connected and a loop() iteration's read
\* fails (register select not acknowledged, or fewer bytes than requested),
\* the tilt value after the iteration equals the value before it, nothing
\* else of the sensor side's state records the failure, and the iteration
\* after a failed one attempts a read again.
C4_FailedReadSkipped ==
    [][(pc0 = "loop" /\ g_sensor_connected /\ sensor_ticks' # sensor_ticks)
           => /\ bus'.reads = bus.reads + 1
              /\ ~(bus'.status = 0 /\ bus'.nbytes = 6)
                     => /\ g_tilt_x' = g_tilt_x
                        /\ g_sensor_connected' = g_sensor_connected
                        /\ pc0' = pc0
                        /\ boot' = boot
                        /\ bus'.failed = bus.failed + 1]_vars

\* A read failed after an earlier one had published a tilt: the published
\* value is still there.
C4_StaleValueKept ==
    /\ g_sensor_connected
    /\ bus.failed >= 1
    /\ bus.reads > bus.failed
    /\ bus.status # 0
    /\ g_tilt_x = AccX(64, 0)

\* C5 as stated: a bus failure at boot, be it the probe or the wake command
\* that is not acknowledged, leaves the connected flag false, and every later
\* loop() iteration publishes the simulated tilt.
C5_BootFailureSelectsSimulation ==
    (pc0 = "loop" /\ (boot.probe = 2 \/ boot.wake = 2))
        => /\ ~g_sensor_connected
           /\ bus = NoBus

\* C5 as amended: a probe that is not acknowledged leaves the connected flag
\* false for good, and every later loop() iteration publishes the simulated
\* tilt without touching the bus.  The status of the wake command is not
\* looked at: after an acknowledged probe the sensor is marked connected
\* whether or not the wake command was acknowledged, and every later loop()
\* iteration attempts a hardware read.
C5_ProbeAloneDecides ==
    [][(pc0 = "loop" /\ sensor_ticks' # sensor_ticks)
           => IF boot.probe = 0
              THEN /\ g_sensor_connected /\ g_sensor_connected'
                   /\ bus'.reads = bus.reads + 1
              ELSE /\ ~g_sensor_connected /\ ~g_sensor_connected'
                   /\ g_tilt_x' = SimTilt(now)
                   /\ bus' = NoBus]_vars

\* The wake command failed after an acknowledged probe, and loop() has read
\* a sample from the sensor since.
C5_WakeFailureIgnored ==
    /\ boot = [probe |-> 0, wake |-> 2]
    /\ g_sensor_connected
    /\ bus.reads >= 1
    /\ bus.status = 0 /\ bus.nbytes = 6
    /\ g_tilt_x = AccX(64, 0)

\* C10: under every interleaving of the two cores, every step of core 1
\* (update_led_strip, create_ascii_visualization, the rest of loop1) leaves
\* the tilt value and the connected flag unchanged, and every step of core 0
\* (setup, loop) leaves the particle position, velocity, shimmer phase and
\* pixel buffer unchanged.
C10_SingleWriter ==
    [][/\ pc1' # pc1
           => /\ g_tilt_x' = g_tilt_x
              /\ g_sensor_connected' = g_sensor_connected
       /\ (pc0' # pc0 \/ sensor_ticks' # sensor_ticks)
           => /\ water_pos' = water_pos
              /\ water_vel' = water_vel
              /\ flow_time_offset' = flow_time_offset
              /\ leds' = leds]_vars

\* Both cores have run: a measured tilt is published and a frame was drawn
\* from it that moved the particle.
C10_BothCoresRan ==
    /\ sensor_ticks >= 1
    /\ frames >= 1
    /\ g_sensor_connected
    /\ g_tilt_x = AccX(64, 0)
    /\ last.tilt = g_tilt_x
    /\ water_pos # Core1Init.water_pos
    /\ leds = GlowFrame(water_pos, flow_time_offset)

====
